---- MODULE Spec2Model ----
(***************************************************************************)
(* Model of discord_agent_interface.py: the scoped connection lifecycle    *)
(* (discord_connection) and the three operations built on it               *)
(* (get_discord_channel_list, send_discord_message,                        *)
(* get_discord_message_history).                                           *)
(*                                                                         *)
(* Every call is an asyncio coroutine.  Its position is call[c].pc; the    *)
(* positions ending in "_wait" (and "f_await") are its awaits, the only    *)
(* points where the background connect task and the upstream can act.      *)
(***************************************************************************)
EXTENDS Integers, Sequences, FiniteSets, TLC

VARIABLES
    discord_config,   \* the module-level config path (line 171, reassigned by main)
    files,            \* path -> allowed_channels of the config file stored there
    call              \* call id -> the state of that invocation

vars == <<discord_config, files, call>>

-----------------------------------------------------------------------------
(* Bounds of the model *)

\* most channels an upstream listing holds
MaxChannels == 3
\* most messages a channel stores
MaxStored == 3

(* Program constants *)

\* the clamp of the history limit
HistoryLimitMax == 20

-----------------------------------------------------------------------------
(* Inputs *)

Calls == {1, 2}
\* the calls a sequential caller makes
SoloCalls == {1}

DefaultPath == ".discord_config"
MainPath == "../.discord_config"
Paths == {DefaultPath, MainPath}

\* the allowed_channels lists a config file may hold
AllowedChoices == {{}, {10}, {10, 20}}

\* channel identifiers a caller may pass
RequestIds == {10, 20, 99}
\* limits a caller may pass to get_discord_message_history
RequestLimits == {-1, 0, 1, 2, 5, 20, 21, 25}

\* the channels of the guild: id, name, type (a ChannelType enum member)
GuildChannels ==
    { [id |-> 10, name |-> "general", type |-> 0],
      [id |-> 20, name |-> "voice",   type |-> 2],
      [id |-> 30, name |-> "random",  type |-> 0] }

\* ages, in seconds, a stored message may have when the history is formatted
Ages == {30, 60, 61, 4000}

\* identifiers the platform may assign to a sent message
SentIds == {7, 120}

-----------------------------------------------------------------------------
(* Sequence helpers *)

RECURSIVE Reverse(_)
Reverse(s) == IF s = <<>> THEN <<>> ELSE Reverse(Tail(s)) \o <<Head(s)>>

RECURSIVE SelectSeqBy(_, _)
SelectSeqBy(s, ids) ==
    IF s = <<>> THEN <<>>
    ELSE IF Head(s).id \in ids
         THEN <<Head(s)>> \o SelectSeqBy(Tail(s), ids)
         ELSE SelectSeqBy(Tail(s), ids)

Take(s, n) == SubSeq(s, 1, IF n < Len(s) THEN n ELSE Len(s))

\* the sequences without repetition over S of length at most n
RECURSIVE Arrangements(_, _)
Arrangements(S, n) ==
    IF n = 0 THEN {<<>>}
    ELSE {<<>>} \cup
         UNION { { <<x>> \o t : t \in Arrangements(S \ {x}, n - 1) } : x \in S }

-----------------------------------------------------------------------------
(* Conversions *)

\* str(channel.type): the name of the ChannelType member
ChannelTypeStr(t) ==
    CASE t = 0 -> "text"
      [] t = 2 -> "voice"
      [] OTHER -> "unknown"

\* str(n) of a non-negative integer: its decimal digits
RECURSIVE Str(_)
Str(n) == IF n < 10 THEN <<n>> ELSE Str(n \div 10) \o <<n % 10>>

\* format(x, ".0f") of the non-negative rational x = q.n / q.d:
\* the nearest integer, ties to even
FormatF0(q) ==
    LET w == q.n \div q.d
        r2 == 2 * (q.n % q.d)
    IN  IF r2 > q.d \/ (r2 = q.d /\ w % 2 = 1) THEN w + 1 ELSE w

-----------------------------------------------------------------------------
(* State of one invocation *)

IdleCall ==
    [ pc          |-> "idle",
      op          |-> "none",
      channel_id  |-> 0,
      req_limit   |-> 0,      \* the limit the caller passed
      limit       |-> 0,      \* the local variable limit
      config_path |-> "",
      allowed     |-> {},     \* config.get('allowed_channels', [])
      bot_closed  |-> TRUE,   \* bot.is_closed(); no handle exists yet
      self_closed |-> FALSE,  \* the handle closed itself
      close_calls |-> 0,      \* calls of bot.close() made by discord_connection
      task        |-> "none", \* none, pending, running, cancelling,
                              \* done_ok, done_err, cancelled
      ready       |-> "none", \* the asyncio.Event: none, clear, set
      handler     |-> FALSE,  \* on_ready is registered on the bot
      notified    |-> FALSE,  \* the connection has dispatched a ready event
      yielded     |-> 0,      \* times the scope handed the bot to its body
      checked     |-> "no",   \* the allowed-channel test: no, passed, rejected, filtered
      netlog      |-> <<>>,   \* network actions issued, in order
      upstream    |-> <<>>,   \* what the upstream answered (listing or messages)
      exc         |-> "none", \* the exception propagating
      body_exc    |-> "none", \* the exception the body raised
      timed_out   |-> FALSE,  \* the readiness wait timed out
      result      |-> [kind |-> "unset", val |-> <<>>] ]

Net(a, x) == [act |-> a, arg |-> x]

\* how many times the call issued the network action a
Count(c, a) ==
    Cardinality({ i \in 1..Len(call[c].netlog) : call[c].netlog[i].act = a })

\* an await between create_task and the registration of on_ready: the
\* event loop may run the task at any position of a started call
AtAwaitAnywhere(c) == call[c].pc \notin {"idle", "done"}

\* the awaits: the points where the event loop runs something else
Awaits ==
    { "wait_ready", "l_guild_wait", "l_channels_wait", "s_channel_wait",
      "s_send_wait", "h_channel_wait", "h_history_wait", "f_close_wait",
      "f_await" }

AtAwait(c) == call[c].pc \in Awaits

Set(c, r) ==
    /\ call' = [call EXCEPT ![c] = r]
    /\ UNCHANGED <<discord_config, files>>

Init ==
    /\ discord_config = DefaultPath
    /\ files \in [Paths -> AllowedChoices]
    /\ call = [c \in Calls |-> IdleCall]

-----------------------------------------------------------------------------
(* discord_connection: entry *)

\* the state after loading the config and constructing the bot
Entered(c, o, ch, lim, path) ==
    [ IdleCall EXCEPT
        !.pc = "create_task", !.op = o, !.channel_id = ch,
        !.req_limit = lim, !.limit = lim, !.config_path = path,
        !.allowed = files[path], !.bot_closed = FALSE ]

CallListChannels(c) ==
    /\ call[c].pc = "idle"
    /\ Set(c, Entered(c, "list", 0, 0, discord_config))

CallSendMessage(c) ==
    /\ call[c].pc = "idle"
    /\ \E ch \in RequestIds : Set(c, Entered(c, "send", ch, 0, discord_config))

CallHistory(c) ==
    /\ call[c].pc = "idle"
    /\ \E ch \in RequestIds, lim \in RequestLimits :
          Set(c, Entered(c, "history", ch, lim, discord_config))

\* main(): reassign the global path, then list the channels
main(c) ==
    /\ \A d \in Calls : call[d].pc = "idle"
    /\ discord_config' = MainPath
    /\ call' = [call EXCEPT ![c] = Entered(c, "list", 0, 0, MainPath)]
    /\ UNCHANGED files

\* task = asyncio.create_task(bot.start(token)): scheduled, not yet running
CreateTask(c) ==
    /\ call[c].pc = "create_task"
    /\ Set(c, [call[c] EXCEPT !.pc = "make_event", !.task = "pending"])

\* ready = asyncio.Event()
MakeEvent(c) ==
    /\ call[c].pc = "make_event"
    /\ Set(c, [call[c] EXCEPT !.pc = "register", !.ready = "clear"])

\* @bot.event async def on_ready
RegisterOnReady(c) ==
    /\ call[c].pc = "register"
    /\ Set(c, [call[c] EXCEPT !.pc = "wait_ready", !.handler = TRUE])

\* what the body of the scope starts with
BodyStart(o) ==
    CASE o = "list"    -> "l_fetch_guild"
      [] o = "send"    -> "s_check"
      [] o = "history" -> "h_clamp"

\* yielding the bot without waiting for the readiness event
ReadyWakeEarly(c) ==
    /\ call[c].pc = "wait_ready"
    /\ Set(c, [call[c] EXCEPT !.pc = BodyStart(call[c].op),
                              !.yielded = @ + 1])

\* await ready.wait() returns; yield bot, config
ReadyWake(c) ==
    /\ call[c].pc = "wait_ready"
    /\ call[c].ready = "set"
    /\ Set(c, [call[c] EXCEPT !.pc = BodyStart(call[c].op),
                              !.yielded = @ + 1])

\* the 30 s timeout fires first: RuntimeError("Bot failed to connect ...")
\* (the loop runs the scheduled task before any timer can fire)
ReadyTimeout(c) ==
    /\ call[c].pc = "wait_ready"
    /\ call[c].ready # "set"
    /\ call[c].task # "pending"
    /\ Set(c, [call[c] EXCEPT !.pc = "f_close", !.exc = "ConnectTimeout",
                              !.timed_out = TRUE])

-----------------------------------------------------------------------------
(* The background connect task and the upstream, acting at the awaits *)

\* the task's first step: bot.start begins to log in and connect
TaskStart(c) ==
    /\ AtAwait(c)
    /\ call[c].task = "pending"
    /\ Set(c, [call[c] EXCEPT !.task = "running",
                              !.netlog = Append(@, Net("connect", 0))])

\* the connection dispatches the ready event: the registered handler sets
\* the asyncio.Event (a notification with no handler registered is lost)
on_ready(c) ==
    /\ AtAwait(c)
    /\ call[c].task = "running"
    /\ ~call[c].bot_closed
    /\ Set(c, [call[c] EXCEPT
                 !.notified = TRUE,
                 !.ready = IF call[c].handler /\ @ # "none" THEN "set" ELSE @])

\* bot.start raises (login failure, refused intents, fatal gateway close)
TaskFail(c) ==
    /\ AtAwait(c)
    /\ call[c].task = "running"
    /\ Set(c, [call[c] EXCEPT !.task = "done_err"])

\* bot.start returns because the bot is closed or closing
TaskReturn(c) ==
    /\ AtAwait(c)
    /\ call[c].task = "running"
    /\ call[c].bot_closed \/ call[c].pc = "f_close_wait"
    /\ Set(c, [call[c] EXCEPT !.task = "done_ok"])

\* the cancelled task receives CancelledError and ends
TaskCancelled(c) ==
    /\ AtAwait(c)
    /\ call[c].task = "cancelling"
    /\ Set(c, [call[c] EXCEPT !.task = "cancelled"])

\* the handle closes itself (an upstream disconnect)
SelfClose(c) ==
    /\ AtAwait(c)
    /\ call[c].pc \notin {"f_close_wait", "f_await"}
    /\ call[c].task = "running"
    /\ ~call[c].bot_closed
    /\ Set(c, [call[c] EXCEPT !.bot_closed = TRUE, !.self_closed = TRUE])


-----------------------------------------------------------------------------
(* Pure parts of the operations *)

\* channel_id in allowed_channels
IsAllowed(ch, allowed) == ch \in allowed

\* the comprehension without its "if channel.id in allowed_channels"
FilterChannelsAll(channels, allowed) ==
    [i \in 1..Len(channels) |->
        [id   |-> channels[i].id,
         name |-> channels[i].name,
         type |-> ChannelTypeStr(channels[i].type)]]

\* the list comprehension of get_discord_channel_list
FilterChannels(channels, allowed) ==
    LET kept == SelectSeqBy(channels, allowed)
    IN  [i \in 1..Len(kept) |->
            [id   |-> kept[i].id,
             name |-> kept[i].name,
             type |-> ChannelTypeStr(kept[i].type)]]

\* the clamp at the docstring's "max 10"
ClampLimitTen(lim) == IF lim > 10 THEN 10 ELSE lim

\* if limit > 20: limit = 20
ClampLimit(lim) == IF lim > HistoryLimitMax THEN HistoryLimitMax ELSE lim

\* channel.history(limit=lim, oldest_first=False) over the stored messages
\* (kept oldest first): the newest lim messages, newest first; none for lim < 1
History(stored, lim) ==
    IF lim < 1 THEN <<>> ELSE Take(Reverse(stored), lim)

\* the label with a first test that matches the initial unit, so that the
\* promotion from seconds to minutes fires
AgeLabelPromoting(age) ==
    LET s0 == [t |-> [n |-> age, d |-> 1], unit |-> "seconds"]
        s1 == IF s0.t.n > 60 * s0.t.d /\ s0.unit = "seconds"
              THEN [t |-> [n |-> s0.t.n, d |-> s0.t.d * 60], unit |-> "minutes"]
              ELSE s0
    IN  [value |-> FormatF0(s1.t), unit |-> s1.unit]

\* the relative-age label of one message, lines 146-162
AgeLabel(age) ==
    LET s0 == [t |-> [n |-> age, d |-> 1], unit |-> "seconds"]
        s1 == IF s0.t.n > 60 * s0.t.d /\ s0.unit = "second(s)"
              THEN [t |-> [n |-> s0.t.n, d |-> s0.t.d * 60], unit |-> "minutes"]
              ELSE s0
        s2 == IF s1.t.n > 60 * s1.t.d /\ s1.unit = "minute(s)"
              THEN [t |-> [n |-> s1.t.n, d |-> s1.t.d * 60], unit |-> "hours"]
              ELSE s1
        s3 == IF s2.t.n > 24 * s2.t.d /\ s2.unit = "hour(s)"
              THEN [t |-> [n |-> s2.t.n, d |-> s2.t.d * 24], unit |-> "days"]
              ELSE s2
        s4 == IF s3.t.n > 365 * s3.t.d /\ s3.unit = "year(s)"
              THEN [t |-> [n |-> s3.t.n, d |-> s3.t.d * 365], unit |-> "years"]
              ELSE s3
    IN  [value |-> FormatF0(s4.t), unit |-> s4.unit]

\* one line of the result, line 162
FormatLine(m) ==
    [author |-> m.author, age |-> AgeLabel(m.age).value,
     unit |-> AgeLabel(m.age).unit, id |-> Str(m.id), content |-> m.content]

\* the formatting loop without messages.reverse()
FormatHistoryNoReverse(messages) ==
    [i \in 1..Len(messages) |-> FormatLine(messages[i])]

\* messages.reverse() and the formatting loop, lines 143-162
FormatHistory(messages) ==
    LET ordered == Reverse(messages)
    IN  [i \in 1..Len(ordered) |-> FormatLine(ordered[i])]

\* the messages a channel may store, oldest first
StoredChoices ==
    UNION { { [i \in 1..n |->
                 [id |-> 100 + i, author |-> "bob", content |-> "hi",
                  age |-> ages[i]]] : ages \in [1..n -> Ages] }
            : n \in 0..MaxStored }

-----------------------------------------------------------------------------
(* The bodies of the three operations *)

\* the body returns v: the scope is left normally
Return(c, v) == [call[c] EXCEPT !.pc = "f_close", !.result = v]

\* the body raises e: the scope is left with e propagating
Raise(c, e) == [call[c] EXCEPT !.pc = "f_close", !.exc = e, !.body_exc = e]

\* the send awaited outside the async_timeout block
TimedWaitsNoSend ==
    { "l_channels_wait", "s_channel_wait", "h_channel_wait", "h_history_wait" }

\* the awaits inside an async_timeout block of a body
TimedWaits ==
    { "l_channels_wait", "s_channel_wait", "s_send_wait", "h_channel_wait",
      "h_history_wait" }
RemoteWaits == TimedWaits \cup {"l_guild_wait"}

\* a timeout of the send answered by sending once more
RemoteTimeoutRetry(c) ==
    /\ call[c].pc \in TimedWaits
    /\ IF call[c].pc = "s_send_wait" /\ Count(c, "send") < 2
       THEN Set(c, [call[c] EXCEPT
                      !.netlog = Append(@, Net("send", call[c].channel_id))])
       ELSE Set(c, Raise(c, "FetchTimeout"))

\* async_timeout fires: asyncio.TimeoutError
RemoteTimeout(c) ==
    /\ call[c].pc \in TimedWaits
    /\ Set(c, Raise(c, "FetchTimeout"))

\* the library raises (network failure, permission denial, not found)
RemoteError(c) ==
    /\ call[c].pc \in RemoteWaits
    /\ Set(c, Raise(c, "UpstreamError"))

\* guild = await bot.fetch_guild(config['guild_id'])
ListFetchGuild(c) ==
    /\ call[c].pc = "l_fetch_guild"
    /\ Set(c, [call[c] EXCEPT !.pc = "l_guild_wait",
                 !.netlog = Append(@, Net("fetch_guild", 0))])

ListGuildResolved(c) ==
    /\ call[c].pc = "l_guild_wait"
    /\ Set(c, [call[c] EXCEPT !.pc = "l_fetch_channels"])

\* channels = await guild.fetch_channels()
ListFetchChannels(c) ==
    /\ call[c].pc = "l_fetch_channels"
    /\ Set(c, [call[c] EXCEPT !.pc = "l_channels_wait",
                 !.netlog = Append(@, Net("fetch_channels", 0))])

\* the listing arrives; filter and return
ListChannelsArrived(c) ==
    /\ call[c].pc = "l_channels_wait"
    /\ \E channels \in Arrangements(GuildChannels, MaxChannels) :
          Set(c, [Return(c, [kind |-> "channels",
                             val |-> FilterChannels(channels, call[c].allowed)])
                    EXCEPT !.checked = "filtered", !.upstream = channels])

\* send_discord_message without its allowed-channel test
SendCheckNoTest(c) ==
    /\ call[c].pc = "s_check"
    /\ Set(c, [call[c] EXCEPT !.pc = "s_fetch_channel", !.checked = "passed"])

\* if channel_id not in allowed_channels: return None
SendCheck(c) ==
    /\ call[c].pc = "s_check"
    /\ IF IsAllowed(call[c].channel_id, call[c].allowed)
       THEN Set(c, [call[c] EXCEPT !.pc = "s_fetch_channel", !.checked = "passed"])
       ELSE Set(c, [Return(c, [kind |-> "null", val |-> <<>>])
                      EXCEPT !.checked = "rejected"])

\* channel = await bot.fetch_channel(channel_id)
SendFetchChannel(c) ==
    /\ call[c].pc = "s_fetch_channel"
    /\ Set(c, [call[c] EXCEPT !.pc = "s_channel_wait",
                 !.netlog = Append(@, Net("fetch_channel", call[c].channel_id))])

\* message = await channel.send(content)
SendSend(c) ==
    /\ call[c].pc = "s_channel_wait"
    /\ Set(c, [call[c] EXCEPT !.pc = "s_send_wait",
                 !.netlog = Append(@, Net("send", call[c].channel_id))])

\* return str(message.id)
SendDone(c) ==
    /\ call[c].pc = "s_send_wait"
    /\ \E mid \in SentIds :
          Set(c, Return(c, [kind |-> "msgid", val |-> Str(mid)]))

\* if limit > 20: limit = 20
HistoryClamp(c) ==
    /\ call[c].pc = "h_clamp"
    /\ Set(c, [call[c] EXCEPT !.pc = "h_check",
                              !.limit = ClampLimit(call[c].limit)])

\* get_discord_message_history without its allowed-channel test
HistoryCheckNoTest(c) ==
    /\ call[c].pc = "h_check"
    /\ Set(c, [call[c] EXCEPT !.pc = "h_fetch_channel", !.checked = "passed"])

\* the allowed-channel test raising instead of returning the sentinel
HistoryCheckRaises(c) ==
    /\ call[c].pc = "h_check"
    /\ IF IsAllowed(call[c].channel_id, call[c].allowed)
       THEN Set(c, [call[c] EXCEPT !.pc = "h_fetch_channel", !.checked = "passed"])
       ELSE Set(c, [Raise(c, "ChannelNotAllowed") EXCEPT !.checked = "rejected"])

\* if channel_id not in allowed_channels: return the sentinel
HistoryCheck(c) ==
    /\ call[c].pc = "h_check"
    /\ IF IsAllowed(call[c].channel_id, call[c].allowed)
       THEN Set(c, [call[c] EXCEPT !.pc = "h_fetch_channel", !.checked = "passed"])
       ELSE Set(c, [Return(c, [kind |-> "sentinel", val |-> <<>>])
                      EXCEPT !.checked = "rejected"])

\* channel = await bot.fetch_channel(channel_id)
HistoryFetchChannel(c) ==
    /\ call[c].pc = "h_fetch_channel"
    /\ Set(c, [call[c] EXCEPT !.pc = "h_channel_wait",
                 !.netlog = Append(@, Net("fetch_channel", call[c].channel_id))])

\* async for message in channel.history(limit=limit, oldest_first=False)
HistoryRead(c) ==
    /\ call[c].pc = "h_channel_wait"
    /\ Set(c, [call[c] EXCEPT !.pc = "h_history_wait",
                 !.netlog = Append(@, Net("history", call[c].limit))])

\* the messages arrive; reverse, format and return
HistoryArrived(c) ==
    /\ call[c].pc = "h_history_wait"
    /\ \E stored \in StoredChoices :
          Set(c, [Return(c, [kind |-> "text",
                             val |-> FormatHistory(History(stored, call[c].limit))])
                    EXCEPT !.upstream = stored])

-----------------------------------------------------------------------------
(* discord_connection: the finally block *)

\* the finally block closing without asking bot.is_closed()
FinallyCloseAlways(c) ==
    /\ call[c].pc = "f_close"
    /\ Set(c, [call[c] EXCEPT !.pc = "f_close_wait", !.close_calls = @ + 1])

\* if not bot.is_closed(): await bot.close()
FinallyClose(c) ==
    /\ call[c].pc = "f_close"
    /\ IF call[c].bot_closed
       THEN Set(c, [call[c] EXCEPT !.pc = "f_cancel"])
       ELSE Set(c, [call[c] EXCEPT !.pc = "f_close_wait", !.close_calls = @ + 1])

\* bot.close() on a bot object shared by all calls
CloseOkShared(c) ==
    /\ call[c].pc = "f_close_wait"
    /\ call' = [d \in Calls |->
                  IF d = c
                  THEN [call[d] EXCEPT !.pc = "f_cancel", !.bot_closed = TRUE]
                  ELSE [call[d] EXCEPT !.bot_closed = TRUE]]
    /\ UNCHANGED <<discord_config, files>>

\* bot.close() returns
CloseOk(c) ==
    /\ call[c].pc = "f_close_wait"
    /\ Set(c, [call[c] EXCEPT !.pc = "f_cancel", !.bot_closed = TRUE])

\* bot.close() raises: the rest of the finally block is skipped, and the
\* handle is closed or not depending on how far close() got
CloseFail(c) ==
    /\ call[c].pc = "f_close_wait"
    /\ \E closed \in BOOLEAN :
          Set(c, [call[c] EXCEPT !.pc = "done", !.exc = "CloseError",
                                 !.bot_closed = closed])

\* task.cancel(): a request, without effect on a finished task
CancelTask(c) ==
    /\ call[c].pc = "f_cancel"
    /\ Set(c, [call[c] EXCEPT !.pc = "f_await",
                 !.task = IF @ \in {"pending", "running"} THEN "cancelling" ELSE @])

\* try: await task / except asyncio.CancelledError: pass
AwaitTask(c) ==
    /\ call[c].pc = "f_await"
    /\ call[c].task \in {"done_ok", "done_err", "cancelled"}
    /\ Set(c, [call[c] EXCEPT !.pc = "done",
                 !.exc = IF call[c].task = "done_err" THEN "TaskError" ELSE @])

-----------------------------------------------------------------------------
(* Specifications *)

Step(c) ==
    \/ CallListChannels(c)
    \/ CallSendMessage(c)
    \/ CallHistory(c)
    \/ main(c)
    \/ CreateTask(c)
    \/ MakeEvent(c)
    \/ RegisterOnReady(c)
    \/ ReadyWake(c)
    \/ ReadyTimeout(c)
    \/ TaskStart(c)
    \/ on_ready(c)
    \/ TaskFail(c)
    \/ TaskReturn(c)
    \/ TaskCancelled(c)
    \/ SelfClose(c)
    \/ RemoteTimeout(c)
    \/ RemoteError(c)
    \/ ListFetchGuild(c)
    \/ ListGuildResolved(c)
    \/ ListFetchChannels(c)
    \/ ListChannelsArrived(c)
    \/ SendCheck(c)
    \/ SendFetchChannel(c)
    \/ SendSend(c)
    \/ SendDone(c)
    \/ HistoryClamp(c)
    \/ HistoryCheck(c)
    \/ HistoryFetchChannel(c)
    \/ HistoryRead(c)
    \/ HistoryArrived(c)
    \/ FinallyClose(c)
    \/ CloseOk(c)
    \/ CloseFail(c)
    \/ CancelTask(c)
    \/ AwaitTask(c)

\* one caller, one call at a time
Next == \E c \in SoloCalls : Step(c)

Spec == Init /\ [][Next]_vars


\* what is taken to happen whenever it can: the coroutine's own steps, the
\* event loop running a scheduled or cancelled task, the timers, and the
\* completion of bot.close(); the upstream's answers are not among them
Progress(c) ==
    \/ CreateTask(c)
    \/ MakeEvent(c)
    \/ RegisterOnReady(c)
    \/ ReadyWake(c)
    \/ ReadyTimeout(c)
    \/ TaskStart(c)
    \/ TaskCancelled(c)
    \/ RemoteTimeout(c)
    \/ ListFetchGuild(c)
    \/ ListFetchChannels(c)
    \/ SendCheck(c)
    \/ SendFetchChannel(c)
    \/ HistoryClamp(c)
    \/ HistoryCheck(c)
    \/ HistoryFetchChannel(c)
    \/ FinallyClose(c)
    \/ CloseOk(c)
    \/ CloseFail(c)
    \/ CancelTask(c)
    \/ AwaitTask(c)

SpecLive == Init /\ [][Next]_vars /\ \A c \in SoloCalls : WF_vars(Progress(c))

-----------------------------------------------------------------------------
(* Concurrent callers: two send_discord_message calls on one event loop *)

\* a coroutine runs without interruption from one await to the next, so a
\* call can be stepped only while every other call is at an await, not yet
\* started or finished
Quiescent(d) == call[d].pc \in Awaits \cup {"idle", "done"}

\* every other call is between two of its steps
Turn(c) == \A d \in Calls \ {c} : Quiescent(d)

StepSend(c) ==
    \/ Turn(c) /\ CallSendMessage(c)
    \/ Turn(c) /\ CreateTask(c)
    \/ Turn(c) /\ MakeEvent(c)
    \/ Turn(c) /\ RegisterOnReady(c)
    \/ Turn(c) /\ ReadyWake(c)
    \/ Turn(c) /\ ReadyTimeout(c)
    \/ Turn(c) /\ TaskStart(c)
    \/ Turn(c) /\ on_ready(c)
    \/ Turn(c) /\ TaskFail(c)
    \/ Turn(c) /\ TaskReturn(c)
    \/ Turn(c) /\ TaskCancelled(c)
    \/ Turn(c) /\ SelfClose(c)
    \/ Turn(c) /\ RemoteTimeout(c)
    \/ Turn(c) /\ RemoteError(c)
    \/ Turn(c) /\ SendCheck(c)
    \/ Turn(c) /\ SendFetchChannel(c)
    \/ Turn(c) /\ SendSend(c)
    \/ Turn(c) /\ SendDone(c)
    \/ Turn(c) /\ FinallyClose(c)
    \/ Turn(c) /\ CloseOk(c)
    \/ Turn(c) /\ CloseFail(c)
    \/ Turn(c) /\ CancelTask(c)
    \/ Turn(c) /\ AwaitTask(c)

InitConc ==
    /\ discord_config = DefaultPath
    /\ files = [p \in Paths |-> {10}]
    /\ call = [c \in Calls |-> IdleCall]

NextConc == \E c \in Calls : StepSend(c)

SpecConc == InitConc /\ [][NextConc]_vars

-----------------------------------------------------------------------------
(* Properties *)

Done(c) == call[c].pc = "done"
Returned(c) == Done(c) /\ call[c].exc = "none"
TaskTerminated(c) == call[c].task \in {"done_ok", "done_err", "cancelled"}
Issued(c, acts) == \E i \in 1..Len(call[c].netlog) : call[c].netlog[i].act \in acts
ChannelActs == {"fetch_channel", "send", "history"}

\* C1: on every exit of the connection scope after the background task was
\* started, when control is back with the caller the handle is closed and
\* the background task has terminated.
C1_ExitClosedAndTerminated ==
    \A c \in Calls :
        Done(c) /\ call[c].task # "none" =>
            call[c].bot_closed /\ TaskTerminated(c)

\* C2: send_discord_message with a channel outside allowed_channels never
\* issues a channel resolution or a send, and the value it returns is null.
C2_DisallowedSendIsNoOp ==
    \A c \in Calls :
        call[c].op = "send" /\ call[c].channel_id \notin call[c].allowed =>
            /\ ~Issued(c, {"fetch_channel", "send"})
            /\ call[c].checked # "passed"
            /\ call[c].checked = "rejected" => call[c].result.kind = "null"
            /\ Returned(c) => call[c].result.kind = "null"

C2_Witness ==
    \E c \in Calls :
        /\ call[c].op = "send" /\ call[c].channel_id = 99
        /\ Returned(c) /\ call[c].result.kind = "null"
        /\ call[c].netlog = <<Net("connect", 0)>>

\* C3 as stated: no network action of any kind (the connection start
\* included) precedes the allowed-channel test or filter of the operation.
C3_NoNetworkBeforeCheck ==
    \A c \in Calls : call[c].netlog # <<>> => call[c].checked # "no"

\* C3 amended: channel resolution, send and history read are issued only
\* after the allowed-channel test has passed, and never for a disallowed
\* channel; the connection start precedes the test in every operation, and
\* list-channels resolves the server and fetches the listing before filtering.
C3_ChannelActsAfterCheck ==
    \A c \in Calls :
        /\ Issued(c, ChannelActs) => call[c].checked = "passed"
        /\ call[c].op \in {"send", "history"}
             /\ call[c].channel_id \notin call[c].allowed
             => ~Issued(c, ChannelActs)
        /\ call[c].checked \in {"passed", "rejected"} =>
             /\ Len(call[c].netlog) >= 1
             /\ call[c].netlog[1] = Net("connect", 0)
        /\ call[c].checked = "filtered" =>
             call[c].netlog = <<Net("connect", 0), Net("fetch_guild", 0),
                                Net("fetch_channels", 0)>>

C3_Witness ==
    \E c \in Calls :
        /\ call[c].op = "history" /\ call[c].channel_id \notin call[c].allowed
        /\ Returned(c) /\ call[c].result.kind = "sentinel"
        /\ call[c].netlog = <<Net("connect", 0)>>

\* C4: when the readiness wait times out (and closing the handle succeeds),
\* the caller receives ConnectTimeout and no other error, the body never ran,
\* and the background task has terminated.
C4_TimeoutRaisesConnectTimeout ==
    \A c \in Calls :
        Done(c) /\ call[c].timed_out /\ call[c].exc # "CloseError" =>
            /\ call[c].exc = "ConnectTimeout"
            /\ call[c].yielded = 0
            /\ TaskTerminated(c)

\* C5: when the body raises E (and closing the handle succeeds), the caller
\* receives E: the await of the background task never replaces it.
C5_BodyErrorPropagates ==
    \A c \in Calls :
        Done(c) /\ call[c].body_exc # "none" /\ call[c].exc # "CloseError" =>
            call[c].exc = call[c].body_exc

\* C6: when closing the handle fails at scope exit, the background task has
\* still been cancelled and awaited when the failure reaches the caller.
C6_CloseFailureStillStopsTask ==
    \A c \in Calls :
        Done(c) /\ call[c].exc = "CloseError" => TaskTerminated(c)

\* C7: the finally block calls bot.close() at most once, and when the handle
\* closed itself before scope exit it does not call close, raises no close
\* error, and still cancels and awaits the background task.
C7_TeardownOnClosedHandle ==
    \A c \in Calls :
        /\ call[c].close_calls <= 1
        /\ call[c].self_closed => call[c].close_calls = 0
        /\ call[c].self_closed => call[c].exc # "CloseError"
        /\ call[c].self_closed /\ Done(c) =>
             call[c].bot_closed /\ TaskTerminated(c)

C7_Witness ==
    \E c \in Calls :
        /\ Done(c) /\ call[c].self_closed
        /\ call[c].close_calls = 0 /\ call[c].task = "cancelled"

C9_ListIsFilteredListing ==
    \A c \in Calls :
        call[c].result.kind = "channels" =>
            LET up  == call[c].upstream
                out == call[c].result.val
                keep == { i \in 1..Len(up) : up[i].id \in call[c].allowed }
            IN  /\ Len(out) = Cardinality(keep)
                /\ \E f \in [1..Len(out) -> 1..Len(up)] :
                      /\ { f[k] : k \in 1..Len(out) } = keep
                      /\ \A j, k \in 1..Len(out) : j < k => f[j] < f[k]
                      /\ \A k \in 1..Len(out) :
                            /\ out[k].id = up[f[k]].id
                            /\ out[k].name = up[f[k]].name
                            /\ out[k].type = ChannelTypeStr(up[f[k]].type)

C9_Witness ==
    \E c \in Calls :
        /\ Returned(c) /\ call[c].result.kind = "channels"
        /\ call[c].allowed = {10, 20}
        /\ Len(call[c].upstream) = 3
        /\ call[c].upstream[1].id = 20 /\ call[c].upstream[3].id = 10
        /\ Len(call[c].result.val) = 2
        /\ call[c].result.val[1].id = 20 /\ call[c].result.val[2].id = 10

\* C10: with n stored messages and an effective limit L >= 0, fetch-history
\* returns one line for each of the min(L, n) most recent messages and no
\* other, oldest first.
C10_NewestMessagesOldestFirst ==
    \A c \in Calls :
        call[c].result.kind = "text" /\ call[c].limit >= 0 =>
            LET stored == call[c].upstream
                out == call[c].result.val
                n == Len(stored)
                k == IF call[c].limit < n THEN call[c].limit ELSE n
            IN  /\ Len(out) = k
                /\ \A i \in 1..k : out[i].id = Str(stored[n - k + i].id)

C10_Witness ==
    \E c \in Calls :
        /\ Returned(c) /\ call[c].result.kind = "text"
        /\ call[c].limit = 2 /\ Len(call[c].upstream) = 3
        /\ Len(call[c].result.val) = 2
        /\ call[c].result.val[1].id = <<1, 0, 2>>
        /\ call[c].result.val[2].id = <<1, 0, 3>>


\* C11: get_discord_message_history with a channel outside allowed_channels
\* returns the sentinel string as a normal result (its body raises nothing)
\* and issues no channel resolution and no history read, for every limit.
C11_DisallowedHistoryIsSentinel ==
    \A c \in Calls :
        call[c].op = "history" /\ call[c].channel_id \notin call[c].allowed =>
            /\ ~Issued(c, ChannelActs)
            /\ call[c].checked # "passed"
            /\ call[c].checked = "rejected" =>
                 call[c].result.kind = "sentinel" /\ call[c].body_exc = "none"
            /\ Returned(c) => call[c].result.kind = "sentinel"

C11_Witness ==
    \E c \in Calls :
        /\ call[c].op = "history" /\ call[c].channel_id = 99
        /\ call[c].req_limit = 25
        /\ Returned(c) /\ call[c].result.kind = "sentinel"
        /\ ~Issued(c, ChannelActs)

\* the stored message that line i of a history result was made from
SourceOf(c, i) ==
    LET n == Len(call[c].upstream)
        k == Len(call[c].result.val)
    IN  call[c].upstream[n - k + i]

BodyActs == {"fetch_guild", "fetch_channels", "fetch_channel", "send", "history"}
AllActs == BodyActs \cup {"connect"}

\* C13: the scope hands the bot to the body only after the readiness event
\* was set: no remote call of a body is issued before, and each scope runs
\* its body at most once.
C13_BodyOnlyAfterReady ==
    \A c \in Calls :
        /\ Issued(c, BodyActs) => call[c].ready = "set"
        /\ call[c].yielded >= 1 => call[c].ready = "set"
        /\ call[c].checked # "no" => call[c].ready = "set"
        /\ call[c].yielded <= 1

C13_Witness ==
    \E c \in Calls :
        /\ call[c].pc = "s_send_wait"
        /\ call[c].ready = "set" /\ call[c].yielded = 1
        /\ Count(c, "send") = 1

\* C14: one call starts at most one connection attempt and issues each of
\* its remote calls at most once, however it ends.
C14_SingleShot ==
    \A c \in Calls : \A a \in AllActs : Count(c, a) <= 1

C14_Witness ==
    \E c \in Calls :
        /\ Done(c) /\ call[c].op = "send"
        /\ call[c].body_exc = "FetchTimeout"
        /\ call[c].netlog = <<Net("connect", 0), Net("fetch_channel", 10),
                              Net("send", 10)>>

\* C16: when the body completed with a value (and closing the handle
\* succeeds), the call returns that value: teardown raises nothing,
\* whatever state the background task ended in.
C16_SuccessSurvivesTeardown ==
    \A c \in Calls :
        Done(c) /\ call[c].result.kind # "unset" /\ call[c].exc # "CloseError"
            => call[c].exc = "none"


\* C17: the event exists and on_ready is registered before the background
\* task takes its first step, so every ready notification finds the event
\* set afterwards; once set the event stays set.
C17_ReadyNeverLost ==
    /\ [](\A c \in Calls :
            /\ call[c].task \notin {"none", "pending"} =>
                 call[c].handler /\ call[c].ready # "none"
            /\ call[c].notified => call[c].ready = "set")
    /\ [][\A c \in Calls :
            call[c].ready = "set" => call'[c].ready = "set"]_vars

C17_Witness ==
    \E c \in Calls :
        /\ call[c].pc = "wait_ready"
        /\ call[c].task = "running"
        /\ call[c].notified /\ call[c].ready = "set"


\* the handle, the readiness signal and the background task of a call
Conn(d) ==
    <<call[d].bot_closed, call[d].self_closed, call[d].close_calls,
      call[d].task, call[d].ready, call[d].handler, call[d].notified>>

\* C15: with two calls interleaved, a step of one call never changes the
\* handle, the signal or the task of the other, and a handle's close is
\* counted and completed only by steps of the call that created it.
C15_CallsIndependent ==
    [][\A c \in Calls :
          StepSend(c) => \A d \in Calls \ {c} : Conn(d)' = Conn(d)]_vars

C15_Witness ==
    /\ Done(1) /\ call[1].bot_closed /\ call[1].task = "cancelled"
    /\ call[1].close_calls = 1
    /\ call[2].pc = "s_send_wait" /\ ~call[2].bot_closed
    /\ call[2].task = "running" /\ call[2].ready = "set"
    /\ call[2].close_calls = 0


\* C18 as stated: every started call eventually returns or raises, the
\* upstream answering or not.
C18_EveryCallEnds ==
    \A c \in Calls : (call[c].pc # "idle") ~> Done(c)

\* C18 amended: every started call eventually returns or raises unless it
\* is waiting for the server resolution (fetch_guild), the one wait on the
\* upstream that no timeout bounds.
C18_EndsUnlessResolvingGuild ==
    \A c \in Calls :
        (call[c].pc \notin {"idle", "l_guild_wait"})
            ~> (Done(c) \/ call[c].pc = "l_guild_wait")

C18_Witness ==
    \E c \in Calls :
        /\ Done(c) /\ call[c].op = "list"
        /\ call[c].body_exc = "FetchTimeout"
        /\ call[c].netlog = <<Net("connect", 0), Net("fetch_guild", 0),
                              Net("fetch_channels", 0)>>


====
